---- MODULE Spec2Model ----
(***************************************************************************)
(* Exercise-order settlement of the Derayah LTIP dashboard.                *)
(*                                                                         *)
(* The ledger store (portfolios, exercise_orders, vesting_events,         *)
(* cash_transfers, share_transfers) is shared; every operator runs the    *)
(* page handlers of ExerciseOrders.tsx and CashTransfers.tsx in a browser  *)
(* of their own, on the list the page loaded last.  Every awaited store    *)
(* call of a handler is one step, so the steps of different operators     *)
(* interleave.  Money is counted in hundredths of a riyal, the precision   *)
(* of the numeric(15,2) columns.                                           *)
(***************************************************************************)
EXTENDS Integers, Sequences, FiniteSets, TLC

VARIABLES portfolios, exercise_orders, vesting_events, cash_transfers,
          share_transfers, orders, transfers, pc, loc, pre, faults,
          calls, nCalls, nSucc, initial, sessions, today, lastRefresh,
          company_users

store == <<portfolios, exercise_orders, vesting_events, cash_transfers,
           share_transfers>>
vars == <<portfolios, exercise_orders, vesting_events, cash_transfers,
          share_transfers, orders, transfers, pc, loc, pre, faults,
          calls, nCalls, nSucc, initial, sessions, today, lastRefresh,
          company_users>>

\* Store calls that may fail (StoreUnavailableError) in one behaviour.
MaxFaults == 1

\* Handler calls (approve, reject, process, approve transfer) in one behaviour.
MaxCalls == 3

\* Handler calls in one behaviour of operators working at the same time.
MaxRaceCalls == 2

\* The last day of a behaviour; the first is day 1.
MaxDay == 2

Ops == {"op1", "op2"}
\* The browser tabs in which employee e1 has the vesting events page open.
Sessions == {"s1", "s2"}
Orders == {"o1", "o2"}
NULL == "null"
Now == "now"
CompanyId == "c1"

SAR(x) == x * 100

\* The two exercise orders of employee e1 that exist when the operators open
\* the page, 100 shares at 12.50 and 50 shares at 20.00: each was created
\* against the same balance of 2000.00, which does not cover both.
OrderData ==
  [o1 |-> [employee_id |-> "e1", vesting_event_id |-> "v1",
           shares_to_exercise |-> 100, total_exercise_cost |-> SAR(1250)],
   o2 |-> [employee_id |-> "e1", vesting_event_id |-> "v2",
           shares_to_exercise |-> 50, total_exercise_cost |-> SAR(1000)]]

Events == {OrderData[o].vesting_event_id : o \in Orders}

\* The company reserved pools the page may open on: enough shares for both
\* orders, for one of them, or no company reserved portfolio at all.
InitialReserved ==
  {<<>>} \cup {<<[portfolio_type |-> "company_reserved", company_id |-> CompanyId,
                  employee_id |-> NULL, cash_balance |-> 0,
                  total_shares |-> 1000, available_shares |-> n]>> :
                n \in {100, 150}}

PortfolioRow(type, emp, cash, total, avail) ==
  [portfolio_type |-> type, company_id |-> CompanyId, employee_id |-> emp,
   cash_balance |-> cash, total_shares |-> total, available_shares |-> avail]

NoRow == [id |-> 0]

NoLoc ==
  [kind |-> "none", order |-> "none", transfer |-> 0, startStatus |-> "none",
   employeeCashPortfolio |-> NoRow, companyCashPortfolio |-> NoRow,
   fromPortfolio |-> NoRow, toPortfolio |-> NoRow, portfolio |-> NoRow,
   rivalOk |-> FALSE, outcome |-> "none"]

\* The employee page's state: the loaded list (the status of every event),
\* the modal's event and cash portfolio, and how the last confirm ended.
NoSession ==
  [pc |-> "idle", vestingEvents |-> <<>>, exerciseEvent |-> "none",
   cashPortfolio |-> NoRow, order |-> "none", outcome |-> "none"]

\* No refresh has run yet.
NoRefresh ==
  [today |-> 0, vesting_events |-> <<>>, advanced |-> 0, repeat |-> FALSE,
   first |-> 0]

Snapshot ==
  [portfolios |-> portfolios, exercise_orders |-> exercise_orders,
   vesting_events |-> vesting_events, cash_transfers |-> cash_transfers,
   share_transfers |-> share_transfers]

NoSnapshot ==
  [portfolios |-> <<>>, exercise_orders |-> <<>>, vesting_events |-> <<>>,
   cash_transfers |-> <<>>, share_transfers |-> <<>>]

----------------------------------------------------------------------------
\* JavaScript and query helpers

\* (row.col || 0): a column the select did not ask for is undefined.
JsOrZero(row, col) == IF col \in DOMAIN row THEN row[col] ELSE 0

\* .select('<cols>'): the row cut down to its id and the columns asked for.
SelectColumns(id, cols) ==
  [c \in cols \cup {"id"} |-> IF c = "id" THEN id ELSE portfolios[id][c]]

CashColumns == {"portfolio_type", "company_id", "employee_id", "cash_balance"}
ShareColumns == {"portfolio_type", "company_id", "employee_id", "available_shares"}
AllColumns == {"portfolio_type", "company_id", "employee_id", "cash_balance",
               "total_shares", "available_shares"}

\* portfolios?.find(p => p.portfolio_type === type && p.employee_id === emp
\*                       && p.company_id === companyId): the candidates; the
\* query has no ORDER BY, so which of several comes first is the store's choice.
FindPortfolio(type, emp) ==
  {i \in DOMAIN portfolios :
     /\ portfolios[i].portfolio_type = type
     /\ portfolios[i].employee_id = emp
     /\ portfolios[i].company_id = CompanyId}

OrderStatuses == [o \in Orders |-> exercise_orders[o].status]
\* The rows of the transfer list that get the Approve and Reject buttons.
PendingTransfers ==
  {t \in DOMAIN cash_transfers : cash_transfers[t].status = "pending"}

\* The company_users row of an operator: role and permissions.
CompanyUser(role, flag) ==
  [role |-> role, permissions |-> [approve_cash_transfers |-> flag]]

FinanceAdmin == CompanyUser("finance_admin", FALSE)

\* Policy "Company admins can update exercise orders": USING role IN (...).
OrdersUpdatePolicy(user) ==
  company_users[user].role \in
    {"super_admin", "hr_admin", "finance_admin", "operations_admin"}

\* supabase.from('exercise_orders').update(row).eq('id', o) as user: a row
\* the policy hides is not updated, and the call returns no error.
UpdateExerciseOrder(user, o, row) ==
  IF OrdersUpdatePolicy(user)
  THEN [exercise_orders EXCEPT ![o] = row]
  ELSE exercise_orders

\* checkPermissions: setHasFinancePermission(hasPermission || hasAllowedRole)
HasFinancePermission(user) ==
  \/ company_users[user].permissions.approve_cash_transfers = TRUE
  \/ company_users[user].role \in
       {"super_admin", "finance_admin", "company_admin", "hr_admin",
        "operations_admin"}

\* Policy "Finance admins can approve/reject cash transfers".
TransfersUpdatePolicy(user) ==
  \/ company_users[user].role \in
       {"super_admin", "finance_admin", "company_admin", "hr_admin",
        "operations_admin"}
  \/ company_users[user].permissions.approve_cash_transfers = TRUE

\* supabase.from('cash_transfers').update(row).eq('id', t) as user.
UpdateCashTransfer(user, t, row) ==
  IF TransfersUpdatePolicy(user)
  THEN [cash_transfers EXCEPT ![t] = row]
  ELSE cash_transfers

----------------------------------------------------------------------------
Init ==
  /\ \E reserved \in InitialReserved :
       portfolios =
         <<PortfolioRow("employee_cash", "e1", SAR(2000), 0, 0),
           PortfolioRow("company_cash", NULL, SAR(500), 0, 0)>> \o reserved
  /\ \E status \in [Orders -> {"pending", "approved"}] :
     exercise_orders =
       [o \in Orders |->
          [employee_id |-> OrderData[o].employee_id,
           vesting_event_id |-> OrderData[o].vesting_event_id,
           shares_to_exercise |-> OrderData[o].shares_to_exercise,
           total_exercise_cost |-> OrderData[o].total_exercise_cost,
           status |-> status[o], processed_at |-> NULL,
           processed_by |-> NULL, rejection_reason |-> NULL]]
  /\ vesting_events = [v \in Events |-> [status |-> "pending_exercise"]]
  /\ cash_transfers =
       <<[transfer_type |-> "employee_deposit", from_portfolio_id |-> 0,
          to_portfolio_id |-> 1, employee_id |-> "e1",
          exercise_order_id |-> NULL, amount |-> SAR(500),
          status |-> "pending", approved_by |-> NULL, approved_at |-> NULL,
          rejection_reason |-> NULL]>>
  /\ share_transfers = <<>>
  /\ orders = [op \in Ops |-> OrderStatuses]
  /\ transfers = [op \in Ops |-> PendingTransfers]
  /\ pc = [op \in Ops |-> "idle"]
  /\ loc = [op \in Ops |-> NoLoc]
  /\ pre = [op \in Ops |-> NoSnapshot]
  /\ faults = 0
  /\ calls = 0
  /\ nCalls = [o \in Orders |-> 0]
  /\ nSucc = [o \in Orders |-> 0]
  /\ initial = portfolios
  /\ sessions = [s \in Sessions |-> NoSession]
  /\ today = 1
  /\ lastRefresh = NoRefresh
  /\ company_users = [op \in Ops |-> FinanceAdmin]

----------------------------------------------------------------------------
\* Steps shared by the handlers

Idle(op) == pc[op] = "idle"

\* No handler of another operator is between its first and its last step.
Quiet(op) == \A other \in Ops \ {op} : pc[other] = "idle"

\* The call as it starts: what it is about, and the stored status it met.
Begin(kind, o, t) ==
  [NoLoc EXCEPT !.kind = kind, !.order = o, !.transfer = t,
                !.startStatus = IF o \in Orders THEN exercise_orders[o].status
                                ELSE cash_transfers[t].status]

\* throw ... catch (error) { alert('Failed ...') }
Throw(op, l) ==
  /\ pc' = [pc EXCEPT ![op] = "done"]
  /\ loc' = [loc EXCEPT ![op] = [l EXCEPT !.outcome = "failed"]]

Goto(op, label, l) ==
  /\ pc' = [pc EXCEPT ![op] = label]
  /\ loc' = [loc EXCEPT ![op] = l]

\* The awaited store calls of the handlers: each returns { error } which the
\* handler throws.
StorePcs ==
  {"p_debit_cash", "p_credit_cash", "p_cash_transfer", "p_read_shares",
   "p_create_vested", "p_debit_shares", "p_credit_shares", "p_share_transfer",
   "p_order", "p_event", "t_credit", "t_status"}

\* A store call of a running handler comes back with an error: nothing is
\* written, the handler throws and its catch block reports the failure.
StoreError(op) ==
  /\ pc[op] \in StorePcs
  /\ faults < MaxFaults
  /\ faults' = faults + 1
  /\ Throw(op, loc[op])
  /\ UNCHANGED <<store, orders, transfers, pre, calls, nCalls, nSucc, initial, company_users,
                 sessions, today, lastRefresh>>

\* The first store call of a handler comes back with an error: the handler
\* throws before it has written anything.
FirstCallError(op, kind, o, t) ==
  /\ Idle(op)
  /\ \/ kind = "approve" /\ t = 0 /\ o \in Orders /\ orders[op][o] = "pending"
     \/ kind = "reject" /\ t = 0 /\ o \in Orders /\ orders[op][o] = "pending"
     \/ kind = "process" /\ t = 0 /\ o \in Orders /\ orders[op][o] = "approved"
     \/ kind = "approve_transfer" /\ o = "none" /\ t \in transfers[op]
  /\ calls < MaxCalls
  /\ calls' = calls + 1
  /\ faults < MaxFaults
  /\ faults' = faults + 1
  /\ pre' = [pre EXCEPT ![op] = IF Quiet(op) THEN Snapshot ELSE NoSnapshot]
  /\ nCalls' = IF kind = "process" THEN [nCalls EXCEPT ![o] = @ + 1] ELSE nCalls
  /\ Throw(op, Begin(kind, o, t))
  /\ UNCHANGED <<store, orders, transfers, nSucc, initial, company_users,
                 sessions, today, lastRefresh>>

\* finally { setProcessingOrder(null) } / setProcessingTransfer(null)
Finish(op) ==
  /\ pc[op] = "done"
  /\ pc' = [pc EXCEPT ![op] = "idle"]
  /\ loc' = [loc EXCEPT ![op] = NoLoc]
  /\ pre' = [pre EXCEPT ![op] = NoSnapshot]
  /\ UNCHANGED <<store, orders, transfers, faults, calls, nCalls, nSucc, initial, company_users,
                 sessions, today, lastRefresh>>

----------------------------------------------------------------------------
\* ExerciseOrders.tsx

\* loadExerciseOrders on page load or filter change: setOrders(data).
LoadOrders(op) ==
  /\ Idle(op)
  /\ orders[op] # OrderStatuses
  /\ orders' = [orders EXCEPT ![op] = OrderStatuses]
  /\ UNCHANGED <<store, transfers, pc, loc, pre, faults, calls, nCalls, nSucc, initial, company_users,
                 sessions, today, lastRefresh>>

\* The patch handleApprove sends.
ApprovePatch(row) == [row EXCEPT !.status = "approved"]

\* An approve that also takes the cost from the first portfolio.
ApproveAndDebit(op, o) ==
  /\ Idle(op)
  /\ orders[op][o] = "pending"
  /\ calls < MaxCalls
  /\ calls' = calls + 1
  /\ pre' = [pre EXCEPT ![op] = IF Quiet(op) THEN Snapshot ELSE NoSnapshot]
  /\ exercise_orders' =
       UpdateExerciseOrder(op, o, ApprovePatch(exercise_orders[o]))
  /\ portfolios' =
       [portfolios EXCEPT
          ![1].cash_balance = @ - exercise_orders[o].total_exercise_cost]
  /\ Goto(op, "reload", Begin("approve", o, 0))
  /\ UNCHANGED <<vesting_events, cash_transfers, share_transfers,
                 orders, transfers, faults, nCalls, nSucc, initial,
                 company_users, sessions, today, lastRefresh>>

\* handleApprove(order): the Approve button is rendered for the rows the
\* loaded list shows as pending; the update is filtered by id alone.
Approve(op, o) ==
  /\ Idle(op)
  /\ orders[op][o] = "pending"
  /\ calls < MaxCalls
  /\ calls' = calls + 1
  /\ pre' = [pre EXCEPT ![op] = IF Quiet(op) THEN Snapshot ELSE NoSnapshot]
  /\ exercise_orders' =
       UpdateExerciseOrder(op, o, ApprovePatch(exercise_orders[o]))
  /\ Goto(op, "reload", Begin("approve", o, 0))
  /\ UNCHANGED <<portfolios, vesting_events, cash_transfers, share_transfers,
                 orders, transfers, faults, nCalls, nSucc, initial, company_users,
                 sessions, today, lastRefresh>>

\* The reason taken as typed.
TrimNothing(reason) == reason

\* rejectionReason.trim()
Trim(reason) == IF reason = " " THEN "" ELSE reason

Reasons == {"", " ", "not eligible"}

\* The patch handleReject sends.
RejectPatch(row, reason) ==
  [row EXCEPT !.status = "rejected", !.rejection_reason = reason]

\* handleReject: the Reject button is rendered for the rows the loaded list
\* shows as pending; a blank reason returns before any store call.
Reject(op, o, rejectionReason) ==
  /\ Idle(op)
  /\ orders[op][o] = "pending"
  /\ Trim(rejectionReason) # ""
  /\ calls < MaxCalls
  /\ calls' = calls + 1
  /\ pre' = [pre EXCEPT ![op] = IF Quiet(op) THEN Snapshot ELSE NoSnapshot]
  /\ exercise_orders' =
       UpdateExerciseOrder(op, o,
                           RejectPatch(exercise_orders[o], rejectionReason))
  /\ Goto(op, "r_event", Begin("reject", o, 0))
  /\ UNCHANGED <<portfolios, vesting_events, cash_transfers, share_transfers,
                 orders, transfers, faults, nCalls, nSucc, initial, company_users,
                 sessions, today, lastRefresh>>

\* handleReject, the vesting event goes back to pending_exercise.
RejectEvent(op) ==
  /\ pc[op] = "r_event"
  /\ vesting_events' =
       [vesting_events EXCEPT
          ![exercise_orders[loc[op].order].vesting_event_id].status =
            "pending_exercise"]
  /\ Goto(op, "reload", loc[op])
  /\ UNCHANGED <<portfolios, exercise_orders, cash_transfers, share_transfers,
                 orders, transfers, pre, faults, calls, nCalls, nSucc, initial, company_users,
                 sessions, today, lastRefresh>>

\* The result of that update is not looked at: when it fails, handleReject
\* goes on as if it had not.
RejectEventError(op) ==
  /\ pc[op] = "r_event"
  /\ faults < MaxFaults
  /\ faults' = faults + 1
  /\ Goto(op, "reload", loc[op])
  /\ UNCHANGED <<store, orders, transfers, pre, calls, nCalls, nSucc, initial, company_users,
                 sessions, today, lastRefresh>>

\* The balance check with the cost left out of the comparison.
InsufficientCashNoCost(cash_balance, total_exercise_cost) ==
  cash_balance < 0

\* The check made against the balance the orders were created on.
InsufficientCashAtOrder(cash_balance, total_exercise_cost) ==
  SAR(2000) < total_exercise_cost

\* if (employeeCashPortfolio.cash_balance < order.total_exercise_cost) throw
InsufficientCash(cash_balance, total_exercise_cost) ==
  cash_balance < total_exercise_cost

\* newEmployeeCashBalance
NewEmployeeCashBalance(employeeCashPortfolio, total_exercise_cost) ==
  employeeCashPortfolio.cash_balance - total_exercise_cost

\* The company's new balance without the credit.
NewCompanyCashBalanceNoCredit(companyCashPortfolio, total_exercise_cost) ==
  JsOrZero(companyCashPortfolio, "cash_balance")

\* newCompanyCashBalance
NewCompanyCashBalance(companyCashPortfolio, total_exercise_cost) ==
  JsOrZero(companyCashPortfolio, "cash_balance") + total_exercise_cost

\* if (fromPortfolio.available_shares < sharesToTransfer) throw
InsufficientShares(fromPortfolio, sharesToTransfer) ==
  fromPortfolio.available_shares < sharesToTransfer

\* The patch of the company reserved portfolio.
FromPortfolioPatch(row, fromPortfolio, sharesToTransfer) ==
  [row EXCEPT !.available_shares =
                fromPortfolio.available_shares - sharesToTransfer]

\* The patch of the employee vested portfolio.
ToPortfolioPatch(row, toPortfolio, sharesToTransfer) ==
  [row EXCEPT !.total_shares =
                JsOrZero(toPortfolio, "total_shares") + sharesToTransfer,
              !.available_shares =
                JsOrZero(toPortfolio, "available_shares") + sharesToTransfer]

\* The exercise_settlement row handleProcess inserts.
SettlementTransfer(o, employeeCashPortfolio, companyCashPortfolio) ==
  [transfer_type |-> "exercise_settlement",
   from_portfolio_id |-> employeeCashPortfolio.id,
   to_portfolio_id |-> companyCashPortfolio.id,
   employee_id |-> OrderData[o].employee_id,
   exercise_order_id |-> o,
   amount |-> OrderData[o].total_exercise_cost,
   status |-> "processed", approved_by |-> NULL, approved_at |-> NULL,
   rejection_reason |-> NULL]

\* The share_transfers row handleProcess inserts.
ExerciseShareTransfer(o, fromPortfolio, toPortfolio) ==
  [transfer_type |-> "exercise", order |-> o,
   employee_id |-> OrderData[o].employee_id,
   from_portfolio_id |-> fromPortfolio.id, to_portfolio_id |-> toPortfolio.id,
   shares_transferred |-> OrderData[o].shares_to_exercise,
   processed_at |-> Now]

\* The order patch without processed_by.
ProcessedPatchNoActor(row, user) ==
  [row EXCEPT !.status = "processed", !.processed_at = Now]

\* The patch of the order row.
ProcessedPatch(row, user) ==
  [row EXCEPT !.status = "processed", !.processed_at = Now,
              !.processed_by = user]

\* handleProcess(order), up to the balance check: the Process button is
\* rendered for the rows the loaded list shows as approved; the cash
\* portfolios are read and the employee's balance is checked.
Process(op, o) ==
  /\ Idle(op)
  /\ orders[op][o] = "approved"
  /\ calls < MaxCalls
  /\ calls' = calls + 1
  /\ pre' = [pre EXCEPT ![op] = IF Quiet(op) THEN Snapshot ELSE NoSnapshot]
  /\ nCalls' = [nCalls EXCEPT ![o] = @ + 1]
  /\ LET emps == FindPortfolio("employee_cash", OrderData[o].employee_id)
         cos == FindPortfolio("company_cash", NULL)
     IN IF emps = {} \/ cos = {}
        THEN Throw(op, Begin("process", o, 0))
        ELSE \E e \in emps, c \in cos :
               LET l == [Begin("process", o, 0) EXCEPT
                           !.employeeCashPortfolio =
                              SelectColumns(e, CashColumns),
                           !.companyCashPortfolio =
                              SelectColumns(c, CashColumns)]
               IN IF InsufficientCash(l.employeeCashPortfolio.cash_balance,
                                      OrderData[o].total_exercise_cost)
                  THEN Throw(op, l)
                  ELSE Goto(op, "p_debit_cash", l)
  /\ UNCHANGED <<store, orders, transfers, faults, nSucc, initial, company_users,
                 sessions, today, lastRefresh>>

\* Step 1a going straight on to the transfer record, without step 1b.
DebitEmployeeCashThenRecord(op) ==
  /\ pc[op] = "p_debit_cash"
  /\ portfolios' =
       [portfolios EXCEPT ![loc[op].employeeCashPortfolio.id].cash_balance =
          NewEmployeeCashBalance(loc[op].employeeCashPortfolio,
                                 OrderData[loc[op].order].total_exercise_cost)]
  /\ Goto(op, "p_cash_transfer", loc[op])
  /\ UNCHANGED <<exercise_orders, vesting_events, cash_transfers,
                 share_transfers, orders, transfers, pre, faults, calls,
                 nCalls, nSucc, initial, company_users, sessions, today,
                 lastRefresh>>

\* Step 1a: deduct cash from the employee's cash portfolio.
DebitEmployeeCash(op) ==
  /\ pc[op] = "p_debit_cash"
  /\ portfolios' =
       [portfolios EXCEPT ![loc[op].employeeCashPortfolio.id].cash_balance =
          NewEmployeeCashBalance(loc[op].employeeCashPortfolio,
                                 OrderData[loc[op].order].total_exercise_cost)]
  /\ Goto(op, "p_credit_cash", loc[op])
  /\ UNCHANGED <<exercise_orders, vesting_events, cash_transfers,
                 share_transfers, orders, transfers, pre, faults, calls,
                 nCalls, nSucc, initial, company_users, sessions, today, lastRefresh>>

\* Step 1b: add cash to the company's cash portfolio.
CreditCompanyCash(op) ==
  /\ pc[op] = "p_credit_cash"
  /\ portfolios' =
       [portfolios EXCEPT ![loc[op].companyCashPortfolio.id].cash_balance =
          NewCompanyCashBalance(loc[op].companyCashPortfolio,
                                OrderData[loc[op].order].total_exercise_cost)]
  /\ Goto(op, "p_cash_transfer", loc[op])
  /\ UNCHANGED <<exercise_orders, vesting_events, cash_transfers,
                 share_transfers, orders, transfers, pre, faults, calls,
                 nCalls, nSucc, initial, company_users, sessions, today, lastRefresh>>

\* Step 1c: the cash transfer record of the settlement.
InsertCashTransfer(op) ==
  /\ pc[op] = "p_cash_transfer"
  /\ cash_transfers' =
       Append(cash_transfers,
              SettlementTransfer(loc[op].order, loc[op].employeeCashPortfolio,
                                 loc[op].companyCashPortfolio))
  /\ Goto(op, "p_read_shares", loc[op])
  /\ UNCHANGED <<portfolios, exercise_orders, vesting_events, share_transfers,
                 orders, transfers, pre, faults, calls, nCalls, nSucc, initial, company_users,
                 sessions, today, lastRefresh>>

\* Step 2: the share portfolios are read (id, type, owner, available_shares
\* only); with both found, the company's available shares are checked.
ReadSharePortfolios(op) ==
  /\ pc[op] = "p_read_shares"
  /\ LET o == loc[op].order
         froms == FindPortfolio("company_reserved", NULL)
         tos == FindPortfolio("employee_vested", OrderData[o].employee_id)
     IN IF froms = {}
        THEN Throw(op, loc[op])
        ELSE \E f \in froms :
               LET lf == [loc[op] EXCEPT
                            !.fromPortfolio = SelectColumns(f, ShareColumns)]
               IN IF tos = {}
                  THEN Goto(op, "p_create_vested", lf)
                  ELSE \E t \in tos :
                         LET lt == [lf EXCEPT
                                      !.toPortfolio =
                                         SelectColumns(t, ShareColumns)]
                         IN IF InsufficientShares(lt.fromPortfolio,
                                   OrderData[o].shares_to_exercise)
                            THEN Throw(op, lt)
                            ELSE Goto(op, "p_debit_shares", lt)
  /\ UNCHANGED <<store, orders, transfers, pre, faults, calls, nCalls, nSucc, initial, company_users,
                 sessions, today, lastRefresh>>

\* No employee vested portfolio was found: one is inserted with zero balances
\* and read back whole (.select().single()); then the shares check.
CreateVestedPortfolio(op) ==
  /\ pc[op] = "p_create_vested"
  /\ LET o == loc[op].order
         id == Len(portfolios) + 1
         row == PortfolioRow("employee_vested", OrderData[o].employee_id, 0, 0, 0)
         l == [loc[op] EXCEPT
                 !.toPortfolio =
                    [c \in AllColumns \cup {"id"} |->
                       IF c = "id" THEN id ELSE row[c]]]
     IN /\ portfolios' = Append(portfolios, row)
        /\ IF InsufficientShares(l.fromPortfolio, OrderData[o].shares_to_exercise)
           THEN Throw(op, l)
           ELSE Goto(op, "p_debit_shares", l)
  /\ UNCHANGED <<exercise_orders, vesting_events, cash_transfers,
                 share_transfers, orders, transfers, pre, faults, calls,
                 nCalls, nSucc, initial, company_users, sessions, today, lastRefresh>>

\* Step 3, first half: deduct from the company reserved portfolio.
DebitReservedShares(op) ==
  /\ pc[op] = "p_debit_shares"
  /\ portfolios' =
       [portfolios EXCEPT ![loc[op].fromPortfolio.id] =
          FromPortfolioPatch(@, loc[op].fromPortfolio,
                             OrderData[loc[op].order].shares_to_exercise)]
  /\ Goto(op, "p_credit_shares", loc[op])
  /\ UNCHANGED <<exercise_orders, vesting_events, cash_transfers,
                 share_transfers, orders, transfers, pre, faults, calls,
                 nCalls, nSucc, initial, company_users, sessions, today, lastRefresh>>

\* Step 3, second half: add to the employee vested portfolio.
CreditVestedShares(op) ==
  /\ pc[op] = "p_credit_shares"
  /\ portfolios' =
       [portfolios EXCEPT ![loc[op].toPortfolio.id] =
          ToPortfolioPatch(@, loc[op].toPortfolio,
                           OrderData[loc[op].order].shares_to_exercise)]
  /\ Goto(op, "p_share_transfer", loc[op])
  /\ UNCHANGED <<exercise_orders, vesting_events, cash_transfers,
                 share_transfers, orders, transfers, pre, faults, calls,
                 nCalls, nSucc, initial, company_users, sessions, today, lastRefresh>>

\* Step 4: the share transfer record.
InsertShareTransfer(op) ==
  /\ pc[op] = "p_share_transfer"
  /\ share_transfers' =
       Append(share_transfers,
              ExerciseShareTransfer(loc[op].order, loc[op].fromPortfolio,
                                    loc[op].toPortfolio))
  /\ Goto(op, "p_order", loc[op])
  /\ UNCHANGED <<portfolios, exercise_orders, vesting_events, cash_transfers,
                 orders, transfers, pre, faults, calls, nCalls, nSucc, initial, company_users,
                 sessions, today, lastRefresh>>

\* Step 5: the order becomes processed; the update is filtered by id alone.
UpdateOrderProcessed(op) ==
  /\ pc[op] = "p_order"
  /\ exercise_orders' =
       UpdateExerciseOrder(op, loc[op].order,
                           ProcessedPatch(exercise_orders[loc[op].order], op))
  /\ Goto(op, "p_event", loc[op])
  /\ UNCHANGED <<portfolios, vesting_events, cash_transfers, share_transfers,
                 orders, transfers, pre, faults, calls, nCalls, nSucc, initial, company_users,
                 sessions, today, lastRefresh>>

\* The status handleProcess gives the vesting event.
EventStatusAfterProcess == "exercised"

\* Step 6: the vesting event becomes exercised.
UpdateEventExercised(op) ==
  /\ pc[op] = "p_event"
  /\ vesting_events' =
       [vesting_events EXCEPT
          ![OrderData[loc[op].order].vesting_event_id].status =
            EventStatusAfterProcess]
  /\ Goto(op, "p_reload", loc[op])
  /\ UNCHANGED <<portfolios, exercise_orders, cash_transfers, share_transfers,
                 orders, transfers, pre, faults, calls, nCalls, nSucc, initial, company_users,
                 sessions, today, lastRefresh>>

\* Another operator's process call on the same order that also met the order
\* approved and is still running.
Rival(op, other) ==
  /\ other # op
  /\ pc[other] \notin {"idle", "done"}
  /\ loc[other].kind = "process"
  /\ loc[other].order = loc[op].order
  /\ loc[other].startStatus = "approved"
  /\ loc[op].startStatus = "approved"

\* await loadExerciseOrders(); alert('Order processed successfully! ...')
ProcessReload(op) ==
  /\ pc[op] = "p_reload"
  /\ orders' = [orders EXCEPT ![op] = OrderStatuses]
  /\ pc' = [pc EXCEPT ![op] = "done"]
  /\ loc' = [other \in Ops |->
               IF other = op THEN [loc[op] EXCEPT !.outcome = "ok"]
               ELSE IF Rival(op, other)
                    THEN [loc[other] EXCEPT !.rivalOk = TRUE]
                    ELSE loc[other]]
  /\ nSucc' = [nSucc EXCEPT ![loc[op].order] = @ + 1]
  /\ UNCHANGED <<store, transfers, pre, faults, calls, nCalls, initial, company_users,
                 sessions, today, lastRefresh>>

\* await loadExerciseOrders(); alert('Order approved/rejected successfully')
Reload(op) ==
  /\ pc[op] = "reload"
  /\ orders' = [orders EXCEPT ![op] = OrderStatuses]
  /\ Goto(op, "done", [loc[op] EXCEPT !.outcome = "ok"])
  /\ UNCHANGED <<store, transfers, pre, faults, calls, nCalls, nSucc, initial, company_users,
                 sessions, today, lastRefresh>>

----------------------------------------------------------------------------
\* CashTransfers.tsx

\* loadCashTransfers on page load or filter change: setTransfers(data).
LoadTransfers(op) ==
  /\ Idle(op)
  /\ transfers[op] # PendingTransfers
  /\ transfers' = [transfers EXCEPT ![op] = PendingTransfers]
  /\ UNCHANGED <<store, orders, pc, loc, pre, faults, calls, nCalls, nSucc, initial, company_users,
                 sessions, today, lastRefresh>>

\* newBalance
NewBalance(portfolio, amount) == JsOrZero(portfolio, "cash_balance") + amount

\* The patch handleApprove sends for the transfer.
TransferProcessedPatch(row, user) ==
  [row EXCEPT !.status = "processed", !.approved_by = user,
              !.approved_at = Now]

\* handleApprove(transfer), up to the read of the destination portfolio: the
\* Approve button is rendered, for an operator with the finance permission,
\* for the rows the loaded list shows as pending.
ApproveTransfer(op, t) ==
  /\ Idle(op)
  /\ HasFinancePermission(op)
  /\ t \in transfers[op]
  /\ calls < MaxCalls
  /\ calls' = calls + 1
  /\ pre' = [pre EXCEPT ![op] = IF Quiet(op) THEN Snapshot ELSE NoSnapshot]
  /\ Goto(op, "t_credit",
          [Begin("approve_transfer", "none", t) EXCEPT
             !.portfolio = SelectColumns(cash_transfers[t].to_portfolio_id,
                                         {"cash_balance"})])
  /\ UNCHANGED <<store, orders, transfers, faults, nCalls, nSucc, initial, company_users,
                 sessions, today, lastRefresh>>

\* Update portfolio balance.
CreditDeposit(op) ==
  /\ pc[op] = "t_credit"
  /\ portfolios' =
       [portfolios EXCEPT
          ![cash_transfers[loc[op].transfer].to_portfolio_id].cash_balance =
            NewBalance(loc[op].portfolio, cash_transfers[loc[op].transfer].amount)]
  /\ Goto(op, "t_status", loc[op])
  /\ UNCHANGED <<exercise_orders, vesting_events, cash_transfers,
                 share_transfers, orders, transfers, pre, faults, calls,
                 nCalls, nSucc, initial, company_users, sessions, today, lastRefresh>>

\* Update transfer status; the update is filtered by id alone.
UpdateTransferProcessed(op) ==
  /\ pc[op] = "t_status"
  /\ cash_transfers' =
       UpdateCashTransfer(op, loc[op].transfer,
                          TransferProcessedPatch(cash_transfers[loc[op].transfer],
                                                 op))
  /\ Goto(op, "t_reload", loc[op])
  /\ UNCHANGED <<portfolios, exercise_orders, vesting_events, share_transfers,
                 orders, transfers, pre, faults, calls, nCalls, nSucc, initial, company_users,
                 sessions, today, lastRefresh>>

\* await loadCashTransfers(); alert('Transfer approved and processed ...')
TransferReload(op) ==
  /\ pc[op] = "t_reload"
  /\ transfers' = [transfers EXCEPT ![op] = PendingTransfers]
  /\ Goto(op, "done", [loc[op] EXCEPT !.outcome = "ok"])
  /\ UNCHANGED <<store, orders, pre, faults, calls, nCalls, nSucc, initial, company_users,
                 sessions, today, lastRefresh>>

\* The patch handleReject sends for the transfer.
TransferRejectedPatch(row, reason, user) ==
  [row EXCEPT !.status = "rejected", !.rejection_reason = reason,
              !.approved_by = user, !.approved_at = Now]

\* handleReject of the transfers page: the Reject button is rendered, for an
\* operator with the finance permission, for the rows the loaded list shows
\* as pending; a blank reason returns before any store call; the update is
\* filtered by id alone.
RejectTransfer(op, t, rejectionReason) ==
  /\ Idle(op)
  /\ HasFinancePermission(op)
  /\ t \in transfers[op]
  /\ Trim(rejectionReason) # ""
  /\ calls < MaxCalls
  /\ calls' = calls + 1
  /\ pre' = [pre EXCEPT ![op] = IF Quiet(op) THEN Snapshot ELSE NoSnapshot]
  /\ cash_transfers' =
       UpdateCashTransfer(op, t,
                          TransferRejectedPatch(cash_transfers[t],
                                                rejectionReason, op))
  /\ Goto(op, "t_reload", Begin("reject_transfer", "none", t))
  /\ UNCHANGED <<portfolios, exercise_orders, vesting_events, share_transfers,
                 orders, transfers, faults, nCalls, nSucc, initial,
                 company_users, sessions, today, lastRefresh>>

----------------------------------------------------------------------------
\* A handler's steps after its first; they are the same in every specification.
Step(op) ==
  \/ RejectEvent(op)
  \/ Reload(op)
  \/ DebitEmployeeCash(op)
  \/ CreditCompanyCash(op)
  \/ InsertCashTransfer(op)
  \/ ReadSharePortfolios(op)
  \/ CreateVestedPortfolio(op)
  \/ DebitReservedShares(op)
  \/ CreditVestedShares(op)
  \/ InsertShareTransfer(op)
  \/ UpdateOrderProcessed(op)
  \/ UpdateEventExercised(op)
  \/ ProcessReload(op)
  \/ CreditDeposit(op)
  \/ UpdateTransferProcessed(op)
  \/ TransferReload(op)
  \/ Finish(op)

\* What an operator may start while idle.
Start(op) ==
  \/ LoadOrders(op)
  \/ LoadTransfers(op)
  \/ \E o \in Orders : Approve(op, o)
  \/ \E o \in Orders, rejectionReason \in Reasons : Reject(op, o, rejectionReason)
  \/ \E o \in Orders : Process(op, o)
  \/ \E t \in DOMAIN cash_transfers : ApproveTransfer(op, t)

\* The page opens on the full company reserved pool, with the second order
\* approved already.
InitRace ==
  /\ Init
  /\ Len(portfolios) = 3
  /\ portfolios[3].available_shares = 150
  /\ exercise_orders["o2"].status = "approved"

\* The operators work at the same time: their handlers' steps interleave;
\* the store answers every call.
Next == \E op \in Ops : (calls < MaxRaceCalls /\ Start(op)) \/ Step(op)

Spec == InitRace /\ [][Next]_vars

\* A store call fails.
Fault(op) ==
  \/ StoreError(op)
  \/ RejectEventError(op)
  \/ \E kind \in {"approve", "reject", "process", "approve_transfer"},
        o \in Orders \cup {"none"}, t \in {0} \cup DOMAIN cash_transfers :
       Quiet(op) /\ FirstCallError(op, kind, o, t)

\* The operators take turns: a handler starts only when no other is running,
\* and the store may fail a call.
NextSeq == \E op \in Ops : (Quiet(op) /\ Start(op)) \/ Step(op) \/ Fault(op)

SpecSeq == Init /\ [][NextSeq]_vars

\* The cash portfolios the company may have when the orders come up for
\* processing: both, the company's alone or the employee's alone.  A deposit waits for
\* approval only where the employee's cash portfolio exists.
CashPortfolios ==
  {<<PortfolioRow("employee_cash", "e1", SAR(2000), 0, 0),
     PortfolioRow("company_cash", NULL, SAR(500), 0, 0)>>,
   <<PortfolioRow("company_cash", NULL, SAR(500), 0, 0)>>,
   <<PortfolioRow("employee_cash", "e1", SAR(2000), 0, 0)>>}

InitFunds ==
  /\ \E cash \in CashPortfolios :
       portfolios =
         cash \o <<PortfolioRow("company_reserved", NULL, 0, 1000, 150)>>
  /\ \E first \in {"pending", "approved"} :
       exercise_orders =
         [o \in Orders |->
            [employee_id |-> OrderData[o].employee_id,
             vesting_event_id |-> OrderData[o].vesting_event_id,
             shares_to_exercise |-> OrderData[o].shares_to_exercise,
             total_exercise_cost |-> OrderData[o].total_exercise_cost,
             status |-> IF o = "o1" THEN first ELSE "approved",
             processed_at |-> NULL, processed_by |-> NULL,
             rejection_reason |-> NULL]]
  /\ vesting_events = [v \in Events |-> [status |-> "pending_exercise"]]
  /\ cash_transfers =
       IF portfolios[1].portfolio_type = "employee_cash"
       THEN <<[transfer_type |-> "employee_deposit", from_portfolio_id |-> 0,
               to_portfolio_id |-> 1, employee_id |-> "e1",
               exercise_order_id |-> NULL, amount |-> SAR(500),
               status |-> "pending", approved_by |-> NULL,
               approved_at |-> NULL, rejection_reason |-> NULL]>>
       ELSE <<>>
  /\ share_transfers = <<>>
  /\ orders = [op \in Ops |-> OrderStatuses]
  /\ transfers = [op \in Ops |-> PendingTransfers]
  /\ pc = [op \in Ops |-> "idle"]
  /\ loc = [op \in Ops |-> NoLoc]
  /\ pre = [op \in Ops |-> NoSnapshot]
  /\ faults = 0
  /\ calls = 0
  /\ nCalls = [o \in Orders |-> 0]
  /\ nSucc = [o \in Orders |-> 0]
  /\ initial = portfolios
  /\ sessions = [s \in Sessions |-> NoSession]
  /\ today = 1
  /\ lastRefresh = NoRefresh
  /\ company_users = [op \in Ops |-> FinanceAdmin]

\* The operators take turns on a company whose cash portfolios may be missing.
SpecFunds == InitFunds /\ [][NextSeq]_vars

----------------------------------------------------------------------------
\* EmployeeVestingEvents.tsx and update_vesting_event_status

Riyals4(whole, fraction) == whole * 10000 + fraction

OrderIds == <<"o1", "o2">>

\* An order slot no row has been inserted into.
NoOrder ==
  [employee_id |-> NULL, vesting_event_id |-> NULL, shares_to_exercise |-> 0,
   total_exercise_cost |-> 0, status |-> "none", processed_at |-> NULL,
   processed_by |-> NULL, rejection_reason |-> NULL]

\* The first update without its status filter.
MarkDueAnyStatus(events, date) ==
  [v \in DOMAIN events |->
     IF events[v].vesting_date <= date
     THEN [events[v] EXCEPT !.status = "due"]
     ELSE events[v]]

\* UPDATE vesting_events SET status = 'due'
\*   WHERE status = 'pending' AND vesting_date <= CURRENT_DATE
MarkDue(events, date) ==
  [v \in DOMAIN events |->
     IF events[v].status = "pending" /\ events[v].vesting_date <= date
     THEN [events[v] EXCEPT !.status = "due"]
     ELSE events[v]]

\* The function without its second update.
MarkPendingExerciseSkipped(events, date) ==
  events

\* UPDATE vesting_events ve SET status = 'pending_exercise' ... WHERE
\*   ip.plan_type = 'ESOP' AND ve.status = 'due' AND ve.vesting_date <= CURRENT_DATE
MarkPendingExercise(events, date) ==
  [v \in DOMAIN events |->
     IF /\ events[v].plan_type = "ESOP"
        /\ events[v].status = "due"
        /\ events[v].vesting_date <= date
     THEN [events[v] EXCEPT !.status = "pending_exercise"]
     ELSE events[v]]

\* The two updates in the other order.
update_vesting_event_status_swapped(events, date) ==
  MarkDue(MarkPendingExercise(events, date), date)

\* update_vesting_event_status(): the two updates of the function body.
update_vesting_event_status(events, date) ==
  MarkPendingExercise(MarkDue(events, date), date)

\* The statuses of the events, as the list of the page holds them.
EventStatuses == [v \in DOMAIN vesting_events |-> vesting_events[v].status]

\* The Exercise button of a row of the list.
CanExercise(s, v) ==
  \/ sessions[s].vestingEvents[v] = "pending_exercise"
  \/ sessions[s].vestingEvents[v] = "vested" /\ vesting_events[v].requires_exercise

\* exerciseEvent.shares_to_vest * (exerciseEvent.exercise_price || 0), in
\* ten-thousandths of a riyal.
TotalCost(event) ==
  event.shares_to_vest * JsOrZero(event, "exercise_price")

\* A value with four decimals stored in a numeric(15,2) column: rounded to
\* hundredths, halves away from zero.
Numeric2(x) == (x + 50) \div 100

\* The funds check that lets everything through.
InsufficientFundsNever(cashPortfolio, totalCost) ==
  FALSE

\* !cashPortfolio || cashPortfolio.cash_balance < totalCost
InsufficientFunds(cashPortfolio, totalCost) ==
  cashPortfolio = NoRow \/ cashPortfolio.cash_balance * 100 < totalCost

\* No uniqueness constraint on the table.
UniqueViolationNone(v) ==
  FALSE

\* UNIQUE(vesting_event_id): a stored order, whatever its status, names the event.
UniqueViolation(v) ==
  \E o \in Orders :
    exercise_orders[o].status # "none" /\ exercise_orders[o].vesting_event_id = v

\* The id the store gives the next row of exercise_orders.
NewOrderId ==
  IF \E i \in DOMAIN OrderIds : exercise_orders[OrderIds[i]].status = "none"
  THEN OrderIds[CHOOSE i \in DOMAIN OrderIds :
                  /\ exercise_orders[OrderIds[i]].status = "none"
                  /\ \A j \in 1..(i - 1) :
                       exercise_orders[OrderIds[j]].status # "none"]
  ELSE "none"

\* The row handleConfirmExercise inserts.
NewOrder(v, event, cashPortfolio) ==
  [employee_id |-> "e1", vesting_event_id |-> v,
   shares_to_exercise |-> event.shares_to_vest,
   exercise_price_per_share |-> JsOrZero(event, "exercise_price"),
   total_exercise_cost |-> Numeric2(TotalCost(event)),
   cash_balance_at_order |-> cashPortfolio.cash_balance,
   sufficient_funds |-> TRUE,
   status |-> "pending", processed_at |-> NULL, processed_by |-> NULL,
   rejection_reason |-> NULL]

\* What the employee page's steps leave alone.
reviewVars ==
  <<orders, transfers, pc, loc, pre, nCalls, nSucc, initial, company_users>>

\* The calendar day ends.
Tick ==
  /\ today < MaxDay
  /\ today' = today + 1
  /\ UNCHANGED <<store, reviewVars, faults, calls, sessions, lastRefresh>>

\* loadVestingEvents, await updateVestingEventStatuses(): the function runs
\* in the store with today's date.  What it did is kept for comparison with
\* the run before it.
Refresh(s) ==
  /\ sessions[s].pc \in {"idle", "reload"}
  /\ LET after == update_vesting_event_status(vesting_events, today)
         advanced == Cardinality({v \in DOMAIN after : after[v] # vesting_events[v]})
         repeat == /\ lastRefresh.today = today
                   /\ lastRefresh.vesting_events = vesting_events
     IN /\ vesting_events' = after
        /\ lastRefresh' =
             [today |-> today, vesting_events |-> after, advanced |-> advanced,
              repeat |-> repeat,
              first |-> IF repeat THEN lastRefresh.first ELSE advanced]
  /\ sessions' = [sessions EXCEPT ![s].pc = "l_events"]
  /\ UNCHANGED <<portfolios, exercise_orders, cash_transfers, share_transfers,
                 reviewVars, faults, calls, today>>

\* loadVestingEvents, getAllVestingEvents and setVestingEvents.
LoadEvents(s) ==
  /\ sessions[s].pc = "l_events"
  /\ sessions' = [sessions EXCEPT ![s].pc = "idle",
                                  ![s].vestingEvents = EventStatuses]
  /\ UNCHANGED <<store, reviewVars, faults, calls, today, lastRefresh>>

\* handleExerciseClick(event): loadCashPortfolio reads the employee's cash
\* portfolio with maybeSingle() and falls back to { cash_balance: 0 }; the
\* confirmation modal opens.
handleExerciseClick(s, v) ==
  /\ sessions[s].pc = "idle"
  /\ sessions[s].vestingEvents # <<>>
  /\ CanExercise(s, v)
  /\ calls < MaxCalls
  /\ calls' = calls + 1
  /\ LET found == FindPortfolio("employee_cash", "e1")
         data == IF Cardinality(found) = 1
                 THEN SelectColumns(CHOOSE i \in found : TRUE, AllColumns)
                 ELSE [cash_balance |-> 0]
     IN sessions' = [sessions EXCEPT ![s].pc = "modal",
                                     ![s].exerciseEvent = v,
                                     ![s].cashPortfolio = data,
                                     ![s].order = "none",
                                     ![s].outcome = "none"]
  /\ UNCHANGED <<store, reviewVars, faults, today, lastRefresh>>

\* handleConfirmExercise up to the insert: a balance below the cost alerts
\* and returns; the insert fails on the unique constraint or stores the row.
handleConfirmExercise(s) ==
  /\ sessions[s].pc = "modal"
  /\ LET v == sessions[s].exerciseEvent
         cashPortfolio == sessions[s].cashPortfolio
         totalCost == TotalCost(vesting_events[v])
     IN IF InsufficientFunds(cashPortfolio, totalCost)
        THEN /\ sessions' = [sessions EXCEPT ![s].pc = "idle",
                                             ![s].outcome = "blocked"]
             /\ UNCHANGED exercise_orders
        ELSE IF UniqueViolation(v)
        THEN /\ sessions' = [sessions EXCEPT ![s].pc = "idle",
                                             ![s].outcome = "failed"]
             /\ UNCHANGED exercise_orders
        ELSE \E o \in Orders :
               /\ o = NewOrderId
               /\ exercise_orders' =
                    [exercise_orders EXCEPT
                       ![o] = NewOrder(v, vesting_events[v], cashPortfolio)]
               /\ sessions' = [sessions EXCEPT ![s].pc = "c_event",
                                               ![s].order = o]
  /\ UNCHANGED <<portfolios, vesting_events, cash_transfers, share_transfers,
                 reviewVars, faults, calls, today, lastRefresh>>

\* handleConfirmExercise, the vesting event is set to pending_exercise and
\* the success alert is shown.
UpdateEventPendingExercise(s) ==
  /\ sessions[s].pc = "c_event"
  /\ vesting_events' =
       [vesting_events EXCEPT ![sessions[s].exerciseEvent].status =
          "pending_exercise"]
  /\ sessions' = [sessions EXCEPT ![s].pc = "reload", ![s].outcome = "ok"]
  /\ UNCHANGED <<portfolios, exercise_orders, cash_transfers, share_transfers,
                 reviewVars, faults, calls, today, lastRefresh>>

\* The result of that update is not looked at: when it fails, the success
\* alert is shown all the same.
UpdateEventPendingExerciseError(s) ==
  /\ sessions[s].pc = "c_event"
  /\ faults < MaxFaults
  /\ faults' = faults + 1
  /\ sessions' = [sessions EXCEPT ![s].pc = "reload", ![s].outcome = "ok"]
  /\ UNCHANGED <<store, reviewVars, calls, today, lastRefresh>>

\* handleReject with a blank reason: alert('Please provide a rejection
\* reason') and return, before any store call.
RejectBlank(op, o, rejectionReason) ==
  /\ Idle(op)
  /\ orders[op][o] = "pending"
  /\ Trim(rejectionReason) = ""
  /\ pre' = [pre EXCEPT ![op] = Snapshot]
  /\ Goto(op, "done", [Begin("reject", o, 0) EXCEPT !.outcome = "invalid"])
  /\ UNCHANGED <<store, orders, transfers, faults, calls, nCalls, nSucc, initial, company_users,
                 sessions, today, lastRefresh>>

\* The operator who reviews the orders the employee creates.
Reviewer == "op1"

\* The vesting events of employee e1: 100 options at 12.50 that vest on day
\* 1 and 3 units at 0.3333 that vest on day 2, under an ESOP or a plan
\* without exercise.
InitialEvents(st, plan) ==
  [v1 |-> [status |-> st, shares_to_vest |-> 100,
           exercise_price |-> Riyals4(12, 5000), vesting_date |-> 1,
           plan_type |-> "ESOP", requires_exercise |-> TRUE],
   v2 |-> [status |-> "pending", shares_to_vest |-> 3,
           exercise_price |-> Riyals4(0, 3333), vesting_date |-> 2,
           plan_type |-> plan, requires_exercise |-> plan = "ESOP"]]

\* The employee's cash, the status of the first event and the plan of the
\* second when the pages open.
InitialCases ==
  {<<SAR(2000), "pending", "ESOP">>, <<SAR(2000), "vested", "RSU">>,
   <<SAR(500), "pending_exercise", "ESOP">>, <<SAR(500), "pending", "RSU">>}

\* No order exists yet; the employee has 500.00 or 2000.00 in cash.
InitEmp ==
  /\ \E case \in InitialCases :
       /\ portfolios =
            <<PortfolioRow("employee_cash", "e1", case[1], 0, 0),
              PortfolioRow("company_cash", NULL, SAR(500), 0, 0),
              PortfolioRow("company_reserved", NULL, 0, 1000, 150)>>
       /\ vesting_events = InitialEvents(case[2], case[3])
  /\ exercise_orders = [o \in Orders |-> NoOrder]
  /\ cash_transfers = <<>>
  /\ share_transfers = <<>>
  /\ orders = [op \in Ops |-> OrderStatuses]
  /\ transfers = [op \in Ops |-> PendingTransfers]
  /\ pc = [op \in Ops |-> "idle"]
  /\ loc = [op \in Ops |-> NoLoc]
  /\ pre = [op \in Ops |-> NoSnapshot]
  /\ faults = 0
  /\ calls = 0
  /\ nCalls = [o \in Orders |-> 0]
  /\ nSucc = [o \in Orders |-> 0]
  /\ initial = portfolios
  /\ sessions = [s \in Sessions |-> NoSession]
  /\ today = 1
  /\ lastRefresh = NoRefresh
  /\ company_users = [op \in Ops |-> FinanceAdmin]

\* A step of the employee page in one of the tabs.
EmployeeStep(s) ==
  \/ Refresh(s)
  \/ LoadEvents(s)
  \/ \E v \in Events : handleExerciseClick(s, v)
  \/ handleConfirmExercise(s)
  \/ UpdateEventPendingExercise(s)
  \/ UpdateEventPendingExerciseError(s)

\* A step of the reviewer on the orders page.
ReviewStep(op) ==
  \/ LoadOrders(op)
  \/ \E o \in Orders, rejectionReason \in Reasons :
       \/ Reject(op, o, rejectionReason)
       \/ RejectBlank(op, o, rejectionReason)
  \/ RejectEvent(op)
  \/ RejectEventError(op)
  \/ Reload(op)
  \/ Finish(op)

\* The employee creates orders in two tabs while the reviewer rejects them
\* and the days pass.
NextEmp ==
  \/ Tick
  \/ \E s \in Sessions : EmployeeStep(s)
  \/ ReviewStep(Reviewer)

SpecEmp == InitEmp /\ [][NextEmp]_vars

----------------------------------------------------------------------------
\* The life of a vesting event: refresh, create, approve, reject and process
\* next to each other.

\* The tab in which the employee works.
Tab == "s1"

\* update_vesting_event_status as the store runs it next to other sessions:
\* every UPDATE statement is a step of its own, each with its own WHERE
\* clause on the rows as they are when it runs.  The first statement.
RefreshDue(s) ==
  /\ sessions[s].pc \in {"idle", "reload"}
  /\ vesting_events' = MarkDue(vesting_events, today)
  /\ sessions' = [sessions EXCEPT ![s].pc = "u_exercise"]
  /\ UNCHANGED <<portfolios, exercise_orders, cash_transfers, share_transfers,
                 reviewVars, faults, calls, today, lastRefresh>>

\* The second statement; the page goes on to load the list.
RefreshPendingExercise(s) ==
  /\ sessions[s].pc = "u_exercise"
  /\ vesting_events' = MarkPendingExercise(vesting_events, today)
  /\ sessions' = [sessions EXCEPT ![s].pc = "l_events"]
  /\ UNCHANGED <<portfolios, exercise_orders, cash_transfers, share_transfers,
                 reviewVars, faults, calls, today, lastRefresh>>

\* The vesting events of employee e1: the first has the approved order o1,
\* the second has vested today under the ESOP and has no order yet, the
\* third vests tomorrow under a plan without exercise.
LifeEvents ==
  [v1 |-> [status |-> "pending_exercise", shares_to_vest |-> 100,
           exercise_price |-> Riyals4(12, 5000), vesting_date |-> 1,
           plan_type |-> "ESOP", requires_exercise |-> TRUE],
   v2 |-> [status |-> "pending", shares_to_vest |-> 50,
           exercise_price |-> Riyals4(20, 0), vesting_date |-> 1,
           plan_type |-> "ESOP", requires_exercise |-> TRUE],
   v3 |-> [status |-> "pending", shares_to_vest |-> 10,
           exercise_price |-> 0, vesting_date |-> 2,
           plan_type |-> "RSU", requires_exercise |-> FALSE]]

InitLife ==
  /\ portfolios =
       <<PortfolioRow("employee_cash", "e1", SAR(3000), 0, 0),
         PortfolioRow("company_cash", NULL, SAR(500), 0, 0),
         PortfolioRow("company_reserved", NULL, 0, 1000, 150)>>
  /\ exercise_orders =
       [o \in Orders |->
          IF o = "o1"
          THEN [employee_id |-> OrderData[o].employee_id,
                vesting_event_id |-> OrderData[o].vesting_event_id,
                shares_to_exercise |-> OrderData[o].shares_to_exercise,
                total_exercise_cost |-> OrderData[o].total_exercise_cost,
                status |-> "approved", processed_at |-> NULL,
                processed_by |-> NULL, rejection_reason |-> NULL]
          ELSE NoOrder]
  /\ vesting_events = LifeEvents
  /\ cash_transfers = <<>>
  /\ share_transfers = <<>>
  /\ orders = [op \in Ops |-> OrderStatuses]
  /\ transfers = [op \in Ops |-> PendingTransfers]
  /\ pc = [op \in Ops |-> "idle"]
  /\ loc = [op \in Ops |-> NoLoc]
  /\ pre = [op \in Ops |-> NoSnapshot]
  /\ faults = 0
  /\ calls = 0
  /\ nCalls = [o \in Orders |-> 0]
  /\ nSucc = [o \in Orders |-> 0]
  /\ initial = portfolios
  /\ sessions = [s \in Sessions |-> NoSession]
  /\ today = 1
  /\ lastRefresh = NoRefresh
  /\ company_users = [op \in Ops |-> FinanceAdmin]

\* A step of the employee page, its refresh taken statement by statement.
LifeEmployeeStep(s) ==
  \/ RefreshDue(s)
  \/ RefreshPendingExercise(s)
  \/ LoadEvents(s)
  \/ \E v \in Events : handleExerciseClick(s, v)
  \/ handleConfirmExercise(s)
  \/ UpdateEventPendingExercise(s)

\* A step of a handler of the orders page.
OrderHandlerStep(op) ==
  \/ \E o \in Orders : Approve(op, o)
  \/ \E o \in Orders, rejectionReason \in Reasons :
       Reject(op, o, rejectionReason)
  \/ \E o \in Orders : Process(op, o)
  \/ RejectEvent(op)
  \/ Reload(op)
  \/ DebitEmployeeCash(op)
  \/ CreditCompanyCash(op)
  \/ InsertCashTransfer(op)
  \/ ReadSharePortfolios(op)
  \/ CreateVestedPortfolio(op)
  \/ DebitReservedShares(op)
  \/ CreditVestedShares(op)
  \/ InsertShareTransfer(op)
  \/ UpdateOrderProcessed(op)
  \/ UpdateEventExercised(op)
  \/ ProcessReload(op)
  \/ Finish(op)

\* A step of the reviewer on the orders page.
LifeReviewStep(op) ==
  \/ LoadOrders(op)
  \/ OrderHandlerStep(op)

\* A second tab that only opens the page: refresh and load.
OtherTab == "s2"

\* The employee refreshes and creates orders in one tab and reloads the page
\* in another while the reviewer approves, rejects and processes the orders
\* and the days pass; the store answers every call.
NextLife ==
  \/ Tick
  \/ LifeEmployeeStep(Tab)
  \/ RefreshDue(OtherTab)
  \/ RefreshPendingExercise(OtherTab)
  \/ LoadEvents(OtherTab)
  \/ LifeReviewStep(Reviewer)

SpecLife == InitLife /\ [][NextLife]_vars

----------------------------------------------------------------------------
\* The orders page in the hands of users of every role.

\* The roles of company_users the pages and the policies name, and one
\* they do not.
Roles ==
  {"super_admin", "hr_admin", "finance_admin", "operations_admin",
   "company_admin", "legal_admin"}

\* The reviewer has any of the roles, with or without the
\* approve_cash_transfers permission; the first order is pending and the
\* second approved.
InitRoles ==
  /\ portfolios =
       <<PortfolioRow("employee_cash", "e1", SAR(3000), 0, 0),
         PortfolioRow("company_cash", NULL, SAR(500), 0, 0),
         PortfolioRow("company_reserved", NULL, 0, 1000, 150)>>
  /\ exercise_orders =
       [o \in Orders |->
          [employee_id |-> OrderData[o].employee_id,
           vesting_event_id |-> OrderData[o].vesting_event_id,
           shares_to_exercise |-> OrderData[o].shares_to_exercise,
           total_exercise_cost |-> OrderData[o].total_exercise_cost,
           status |-> IF o = "o1" THEN "pending" ELSE "approved",
           processed_at |-> NULL, processed_by |-> NULL,
           rejection_reason |-> NULL]]
  /\ vesting_events = [v \in Events |-> [status |-> "pending_exercise"]]
  /\ cash_transfers = <<>>
  /\ share_transfers = <<>>
  /\ orders = [op \in Ops |-> OrderStatuses]
  /\ transfers = [op \in Ops |-> PendingTransfers]
  /\ pc = [op \in Ops |-> "idle"]
  /\ loc = [op \in Ops |-> NoLoc]
  /\ pre = [op \in Ops |-> NoSnapshot]
  /\ faults = 0
  /\ calls = 0
  /\ nCalls = [o \in Orders |-> 0]
  /\ nSucc = [o \in Orders |-> 0]
  /\ initial = portfolios
  /\ sessions = [s \in Sessions |-> NoSession]
  /\ today = 1
  /\ lastRefresh = NoRefresh
  /\ \E role \in Roles, flag \in BOOLEAN :
       company_users =
         [op \in Ops |-> IF op = Reviewer THEN CompanyUser(role, flag)
                         ELSE FinanceAdmin]

NextRoles == OrderHandlerStep(Reviewer)

SpecRoles == InitRoles /\ [][NextRoles]_vars

----------------------------------------------------------------------------
\* The transfers page in the hands of two operators.

\* A deposit of the employee and a deposit of the company wait for approval.
InitTransfers ==
  /\ portfolios =
       <<PortfolioRow("employee_cash", "e1", SAR(2000), 0, 0),
         PortfolioRow("company_cash", NULL, SAR(500), 0, 0),
         PortfolioRow("company_reserved", NULL, 0, 1000, 150)>>
  /\ exercise_orders =
       [o \in Orders |->
          [employee_id |-> OrderData[o].employee_id,
           vesting_event_id |-> OrderData[o].vesting_event_id,
           shares_to_exercise |-> OrderData[o].shares_to_exercise,
           total_exercise_cost |-> OrderData[o].total_exercise_cost,
           status |-> "pending", processed_at |-> NULL,
           processed_by |-> NULL, rejection_reason |-> NULL]]
  /\ vesting_events = [v \in Events |-> [status |-> "pending_exercise"]]
  /\ cash_transfers =
       <<[transfer_type |-> "employee_deposit", from_portfolio_id |-> 0,
          to_portfolio_id |-> 1, employee_id |-> "e1",
          exercise_order_id |-> NULL, amount |-> SAR(500),
          status |-> "pending", approved_by |-> NULL, approved_at |-> NULL,
          rejection_reason |-> NULL],
         [transfer_type |-> "company_deposit", from_portfolio_id |-> 0,
          to_portfolio_id |-> 2, employee_id |-> NULL,
          exercise_order_id |-> NULL, amount |-> SAR(300),
          status |-> "pending", approved_by |-> NULL, approved_at |-> NULL,
          rejection_reason |-> NULL]>>
  /\ share_transfers = <<>>
  /\ orders = [op \in Ops |-> OrderStatuses]
  /\ transfers = [op \in Ops |-> PendingTransfers]
  /\ pc = [op \in Ops |-> "idle"]
  /\ loc = [op \in Ops |-> NoLoc]
  /\ pre = [op \in Ops |-> NoSnapshot]
  /\ faults = 0
  /\ calls = 0
  /\ nCalls = [o \in Orders |-> 0]
  /\ nSucc = [o \in Orders |-> 0]
  /\ initial = portfolios
  /\ sessions = [s \in Sessions |-> NoSession]
  /\ today = 1
  /\ lastRefresh = NoRefresh
  /\ company_users = [op \in Ops |-> FinanceAdmin]

\* A step of an operator on the transfers page.
TransferStep(op) ==
  \/ LoadTransfers(op)
  \/ \E t \in DOMAIN cash_transfers : ApproveTransfer(op, t)
  \/ \E t \in DOMAIN cash_transfers, rejectionReason \in Reasons :
       RejectTransfer(op, t, rejectionReason)
  \/ CreditDeposit(op)
  \/ UpdateTransferProcessed(op)
  \/ TransferReload(op)
  \/ StoreError(op)
  \/ Finish(op)

\* The operators approve and reject transfers at the same time, each on the
\* list their page loaded last, and the store may fail a call.
NextTransfers == \E op \in Ops : TransferStep(op)

SpecTransfers == InitTransfers /\ [][NextTransfers]_vars

----------------------------------------------------------------------------
\* Properties

\* The row of the portfolio of a type and owner among rows.
RowOf(rows, type, emp) ==
  rows[CHOOSE i \in DOMAIN rows :
         rows[i].portfolio_type = type /\ rows[i].employee_id = emp]

HasRow(rows, type, emp) ==
  \E i \in DOMAIN rows :
    rows[i].portfolio_type = type /\ rows[i].employee_id = emp

\* Shares of a column in the employee vested portfolio, 0 while there is none.
VestedShares(rows, emp, col) ==
  IF HasRow(rows, "employee_vested", emp)
  THEN RowOf(rows, "employee_vested", emp)[col]
  ELSE 0

Cost(o) == OrderData[o].total_exercise_cost
Shares(o) == OrderData[o].shares_to_exercise
Employee(o) == OrderData[o].employee_id

\* The operator's process call has ended and reported success / failure.
Processed(op) ==
  pc[op] = "done" /\ loc[op].kind = "process" /\ loc[op].outcome = "ok"

ProcessFailed(op) ==
  pc[op] = "done" /\ loc[op].kind = "process" /\ loc[op].outcome = "failed"

\* C1: a process call that fails at any step leaves every cash balance, every
\* share balance, the cash and share transfer records, the order status and
\* the vesting event status as they were before the call.
C1_AllOrNothing ==
  \A op \in Ops : ProcessFailed(op) => Snapshot = pre[op]

\* C2: once a process call on an order has succeeded, a later process call on
\* that order fails without moving cash or shares, and no order is settled
\* more than once.
C2_AtMostOnce ==
  /\ \A o \in Orders : nSucc[o] <= 1
  /\ \A op \in Ops :
       (/\ loc[op].kind = "process"
        /\ loc[op].outcome # "ok"
        /\ nSucc[loc[op].order] >= 1)
       => (loc[op].outcome = "failed" /\ Snapshot = pre[op])

\* C3: of two process calls on the same approved order whose steps
\* interleave, not both succeed.
C3_OneOfTwoSucceeds ==
  \A op \in Ops : Processed(op) => ~loc[op].rivalOk

\* C4: when one process call for each of the two orders has run and both have
\* succeeded, the company cash balance is its initial balance plus both costs
\* and the company reserved available_shares is reduced by both orders' shares.
C4_NoLostUpdate ==
  (/\ \A op \in Ops : pc[op] \in {"idle", "done"}
   /\ \A o \in Orders : nCalls[o] = 1 /\ nSucc[o] = 1)
  => /\ RowOf(portfolios, "company_cash", NULL).cash_balance =
          RowOf(initial, "company_cash", NULL).cash_balance
          + Cost("o1") + Cost("o2")
     /\ RowOf(portfolios, "company_reserved", NULL).available_shares =
          RowOf(initial, "company_reserved", NULL).available_shares
          - Shares("o1") - Shares("o2")

\* C5: a successful process call lowers the employee's cash balance by the
\* order's total_exercise_cost and raises the company's by the same amount,
\* so their sum is what it was before the call.
C5_CashConserved ==
  \A op \in Ops :
    Processed(op) =>
      LET o == loc[op].order
          empBefore == RowOf(pre[op].portfolios, "employee_cash", Employee(o))
          coBefore == RowOf(pre[op].portfolios, "company_cash", NULL)
          empAfter == RowOf(portfolios, "employee_cash", Employee(o))
          coAfter == RowOf(portfolios, "company_cash", NULL)
      IN /\ empAfter.cash_balance = empBefore.cash_balance - Cost(o)
         /\ coAfter.cash_balance = coBefore.cash_balance + Cost(o)
         /\ empAfter.cash_balance + coAfter.cash_balance =
              empBefore.cash_balance + coBefore.cash_balance

\* A second settlement, paid from a balance a deposit has topped up, has
\* succeeded: 2000.00 + 500.00 - 1250.00 = 1250.00 before, 250.00 after.
C5_Witness ==
  \E op \in Ops :
    /\ Processed(op)
    /\ loc[op].order = "o2"
    /\ RowOf(pre[op].portfolios, "employee_cash", "e1").cash_balance = SAR(1250)
    /\ RowOf(portfolios, "employee_cash", "e1").cash_balance = SAR(250)

\* C6: a successful process call, the employee's second exercise included,
\* lowers the company reserved available_shares by shares_to_exercise and
\* raises the employee vested total_shares and available_shares by the same
\* number (stated for runs in which no store call has failed and no order
\* has been processed twice).
C6_SharesConserved ==
  \A op \in Ops :
    (Processed(op) /\ faults = 0 /\ \A o \in Orders : nCalls[o] <= 1) =>
      LET o == loc[op].order
          before == pre[op].portfolios
      IN /\ RowOf(portfolios, "company_reserved", NULL).available_shares =
              RowOf(before, "company_reserved", NULL).available_shares
              - Shares(o)
         /\ VestedShares(portfolios, Employee(o), "total_shares") =
              VestedShares(before, Employee(o), "total_shares") + Shares(o)
         /\ VestedShares(portfolios, Employee(o), "available_shares") =
              VestedShares(before, Employee(o), "available_shares") + Shares(o)

AllowedOrderSteps ==
  {<<"pending", "approved">>, <<"pending", "rejected">>,
   <<"approved", "processed">>}

\* C7: the stored status of an exercise order changes only along
\* pending->approved, pending->rejected and approved->processed, so it never
\* leaves processed, rejected or cancelled.
C7_OrderStatusMachine ==
  [][\A o \in Orders :
       exercise_orders'[o].status # exercise_orders[o].status =>
         <<exercise_orders[o].status, exercise_orders'[o].status>>
           \in AllowedOrderSteps]_vars

\* C8: every cash portfolio has cash_balance >= 0 in every reachable state of
\* interleaved deposit approvals and process calls.
C8_CashNonNegative ==
  \A i \in DOMAIN portfolios : portfolios[i].cash_balance >= 0

\* Both orders, created against the same 2000.00 that covers only one of
\* them, have been settled by interleaved calls, and the deposit may be in.
C8_Witness ==
  /\ nSucc["o1"] = 1
  /\ nSucc["o2"] = 1
  /\ RowOf(portfolios, "employee_cash", "e1").cash_balance < SAR(2000)

\* C9: every share portfolio has available_shares <= total_shares (stated
\* for states in which no order has been processed twice and no store call
\* has failed).
C9_AvailableWithinTotal ==
  (faults = 0 /\ \A o \in Orders : nCalls[o] <= 1)
  => \A i \in DOMAIN portfolios :
       portfolios[i].available_shares <= portfolios[i].total_shares

\* C10: after a successful process call on an approved order, the order is
\* processed with processed_at and processed_by set, its vesting event is
\* exercised, a processed exercise_settlement cash transfer of the order's
\* cost from the employee's to the company's cash portfolio names the order,
\* and an exercise share transfer of the order's shares goes from the
\* company reserved to the employee vested portfolio; 2000.00 and 500.00
\* with a cost of 1250.00 have become 750.00 and 1750.00.
C10_ProcessPostcondition ==
  \A op \in Ops :
    (Processed(op) /\ loc[op].startStatus = "approved") =>
      LET o == loc[op].order
          before == pre[op].portfolios
      IN /\ exercise_orders[o].status = "processed"
         /\ exercise_orders[o].processed_at # NULL
         /\ exercise_orders[o].processed_by = op
         /\ vesting_events[OrderData[o].vesting_event_id].status = "exercised"
         /\ \E t \in DOMAIN cash_transfers :
              /\ cash_transfers[t].transfer_type = "exercise_settlement"
              /\ cash_transfers[t].status = "processed"
              /\ cash_transfers[t].amount = Cost(o)
              /\ cash_transfers[t].exercise_order_id = o
              /\ portfolios[cash_transfers[t].from_portfolio_id] =
                   RowOf(portfolios, "employee_cash", Employee(o))
              /\ portfolios[cash_transfers[t].to_portfolio_id] =
                   RowOf(portfolios, "company_cash", NULL)
         /\ \E t \in DOMAIN share_transfers :
              /\ share_transfers[t].transfer_type = "exercise"
              /\ share_transfers[t].shares_transferred = Shares(o)
              /\ portfolios[share_transfers[t].from_portfolio_id] =
                   RowOf(portfolios, "company_reserved", NULL)
              /\ portfolios[share_transfers[t].to_portfolio_id] =
                   RowOf(portfolios, "employee_vested", Employee(o))
         /\ (/\ RowOf(before, "employee_cash", Employee(o)).cash_balance = SAR(2000)
             /\ RowOf(before, "company_cash", NULL).cash_balance = SAR(500)
             /\ Cost(o) = SAR(1250))
            => /\ RowOf(portfolios, "employee_cash", Employee(o)).cash_balance
                    = SAR(750)
               /\ RowOf(portfolios, "company_cash", NULL).cash_balance
                    = SAR(1750)

\* The 100 shares at 12.50 have been settled from 2000.00 and 500.00.
C10_Witness ==
  \E op \in Ops :
    /\ Processed(op)
    /\ loc[op].startStatus = "approved"
    /\ loc[op].order = "o1"
    /\ RowOf(pre[op].portfolios, "employee_cash", "e1").cash_balance = SAR(2000)
    /\ RowOf(pre[op].portfolios, "company_cash", NULL).cash_balance = SAR(500)
    /\ RowOf(portfolios, "employee_cash", "e1").cash_balance = SAR(750)
    /\ RowOf(portfolios, "company_cash", NULL).cash_balance = SAR(1750)

\* The cash side of a process call cannot be covered by the store as the
\* call met it: a cash portfolio is missing or the employee's balance is short.
Shortfall(before, o) ==
  \/ ~HasRow(before, "employee_cash", Employee(o))
  \/ ~HasRow(before, "company_cash", NULL)
  \/ RowOf(before, "employee_cash", Employee(o)).cash_balance < Cost(o)

\* C11: a process call that meets a missing employee or company cash
\* portfolio, or an employee balance below total_exercise_cost at the time of
\* the call (whatever the balance was when the order was created), fails
\* and leaves portfolios, transfer records, orders and vesting events as
\* they were.
C11_FundsCheckedAtProcess ==
  \A op \in Ops :
    (loc[op].kind = "process" /\ Shortfall(pre[op].portfolios, loc[op].order))
    => (ProcessFailed(op) /\ Snapshot = pre[op])

\* The first order has been settled from the 2000.00 both orders were
\* created on; the call for the second one met 750.00 and failed.
C11_Witness ==
  \E op \in Ops :
    /\ ProcessFailed(op)
    /\ loc[op].order = "o2"
    /\ faults = 0
    /\ HasRow(pre[op].portfolios, "company_cash", NULL)
    /\ HasRow(pre[op].portfolios, "employee_cash", "e1")
    /\ RowOf(pre[op].portfolios, "employee_cash", "e1").cash_balance = SAR(750)

\* The settlement cash transfers and the exercise share transfers of an order.
SettlementsOf(o) ==
  {t \in DOMAIN cash_transfers :
     /\ cash_transfers[t].transfer_type = "exercise_settlement"
     /\ cash_transfers[t].exercise_order_id = o}

ShareTransfersOf(o) ==
  {t \in DOMAIN share_transfers :
     share_transfers[t].transfer_type = "exercise" /\ share_transfers[t].order = o}

\* C12: every order has at most one exercise_settlement cash transfer and at
\* most one exercise share transfer, and a processed order has exactly one
\* of each.
C12_OneTransferPerOrder ==
  \A o \in Orders :
    /\ Cardinality(SettlementsOf(o)) <= 1
    /\ Cardinality(ShareTransfersOf(o)) <= 1
    /\ exercise_orders[o].status = "processed"
         => Cardinality(SettlementsOf(o)) = 1 /\ Cardinality(ShareTransfersOf(o)) = 1

\* The stored orders that name a vesting event.
OrdersOf(v) ==
  {o \in Orders :
     exercise_orders[o].status # "none" /\ exercise_orders[o].vesting_event_id = v}

\* C13: at most one order in status pending or approved references any
\* vesting event, however the create calls for the event interleave.
C13_OneActiveOrderPerEvent ==
  \A v \in Events :
    Cardinality({o \in OrdersOf(v) :
                   exercise_orders[o].status \in {"pending", "approved"}}) <= 1

\* A create for an event has failed in one tab while the order that another
\* create stored for the same event is pending.
C13_Witness ==
  \E s \in Sessions :
    /\ sessions[s].outcome = "failed"
    /\ \E o \in OrdersOf(sessions[s].exerciseEvent) :
         exercise_orders[o].status = "pending"

\* The confirm step of a tab: the modal closes with a result.
Confirms(s) == sessions[s].pc = "modal" /\ sessions'[s].pc # "modal"

\* The confirm step has stored a new pending order for the event.
Created(s, v) ==
  /\ sessions'[s].pc = "c_event"
  /\ \E o \in Orders :
       /\ exercise_orders[o].status = "none"
       /\ exercise_orders'[o].status = "pending"
       /\ exercise_orders'[o].vesting_event_id = v

\* Every order of the event has been rejected, no reject call is still
\* running and the event is back in pending_exercise.
Rejected(v) ==
  /\ \A op \in Ops : Idle(op)
  /\ OrdersOf(v) # {}
  /\ \A o \in OrdersOf(v) : exercise_orders[o].status = "rejected"
  /\ vesting_events[v].status = "pending_exercise"

\* C14: once the order of a vesting event has been rejected and the event is
\* back in pending_exercise, a create for the same event by the employee
\* with sufficient cash stores a new pending order.
C14_ResubmitAfterReject ==
  [][\A s \in Sessions :
       (/\ Confirms(s)
        /\ Rejected(sessions[s].exerciseEvent)
        /\ ~InsufficientFunds(sessions[s].cashPortfolio,
                              TotalCost(vesting_events[sessions[s].exerciseEvent])))
       => Created(s, sessions[s].exerciseEvent)]_vars

\* C15: a create request made with a cash balance below total_exercise_cost
\* (500.00 against 1250.00) still stores a pending order, one with
\* sufficient_funds = false.
C15_CreatedDespiteShortfall ==
  [][\A s \in Sessions :
       (/\ Confirms(s)
        /\ OrdersOf(sessions[s].exerciseEvent) = {}
        /\ InsufficientFunds(sessions[s].cashPortfolio,
                             TotalCost(vesting_events[sessions[s].exerciseEvent])))
       => /\ Created(s, sessions[s].exerciseEvent)
          /\ \A o \in Orders :
               exercise_orders[o].status = "none" /\ exercise_orders'[o].status # "none"
               => exercise_orders'[o].sufficient_funds = FALSE]_vars

\* C16: every stored order has sufficient_funds = (cash_balance_at_order >=
\* total_exercise_cost).
C16_SufficientFundsFlag ==
  \A o \in Orders :
    exercise_orders[o].status # "none"
    => exercise_orders[o].sufficient_funds =
         (exercise_orders[o].cash_balance_at_order >=
            exercise_orders[o].total_exercise_cost)

\* The 100 options at 12.50 have been ordered on a balance of 2000.00.
C16_Witness ==
  \E o \in Orders :
    /\ exercise_orders[o].status = "pending"
    /\ exercise_orders[o].cash_balance_at_order = SAR(2000)
    /\ exercise_orders[o].total_exercise_cost = SAR(1250)
    /\ exercise_orders[o].sufficient_funds

\* C17: every stored order has total_exercise_cost = shares_to_exercise *
\* exercise_price_per_share exactly (cost in hundredths, price in
\* ten-thousandths of a riyal).
C17_CostIsSharesTimesPrice ==
  \A o \in Orders :
    exercise_orders[o].status # "none"
    => exercise_orders[o].total_exercise_cost * 100 =
         exercise_orders[o].shares_to_exercise *
           exercise_orders[o].exercise_price_per_share

\* C18: when a reject call on a pending order reports success, the order is
\* rejected with the reason given and its vesting event is in
\* pending_exercise.
C18_RejectPostcondition ==
  \A op \in Ops :
    (/\ loc[op].kind = "reject"
     /\ loc[op].outcome = "ok"
     /\ loc[op].startStatus = "pending")
    => /\ exercise_orders[loc[op].order].status = "rejected"
       /\ exercise_orders[loc[op].order].rejection_reason = "not eligible"
       /\ vesting_events[exercise_orders[loc[op].order].vesting_event_id].status
            = "pending_exercise"

\* C19: a reject call with an empty or blank reason ends in a validation
\* error and writes nothing, so no order is ever rejected with such a reason.
C19_BlankReasonRejected ==
  [][/\ \A op \in Ops :
          (Idle(op) /\ loc'[op].outcome = "invalid") => UNCHANGED store
     /\ \A o \in Orders :
          (exercise_orders[o].status # "rejected" /\
           exercise_orders'[o].status = "rejected")
          => exercise_orders'[o].rejection_reason \notin {"", " "}]_vars

\* A reject with a blank reason has been turned down; the order is pending
\* and has no rejection reason.
C19_Witness ==
  \E op \in Ops :
    /\ loc[op].kind = "reject"
    /\ loc[op].outcome = "invalid"
    /\ exercise_orders[loc[op].order].status = "pending"
    /\ exercise_orders[loc[op].order].rejection_reason = NULL

\* C20: a refresh that runs on the vesting events as the refresh before it
\* left them, on the same date, advances no event.
C20_RefreshIdempotent ==
  lastRefresh.repeat => lastRefresh.advanced = 0

\* A refresh has advanced an event and has been run again on the same day.
C20_Witness ==
  lastRefresh.repeat /\ lastRefresh.first > 0

----------------------------------------------------------------------------
\* A step of the employee page that runs the whole refresh function.
RefreshCall(s) ==
  sessions[s].pc \in {"idle", "reload"} /\ sessions'[s].pc = "l_events"

\* C21: one refresh call applies rule 1 and then rule 2: every pending event
\* whose vesting date is today or earlier ends that call in pending_exercise
\* when its plan is an ESOP and in due otherwise, and a pending event whose
\* vesting date is later stays pending.
C21_RefreshAppliesBothRules ==
  [][\A s \in Sessions :
       RefreshCall(s) =>
         \A v \in DOMAIN vesting_events :
           vesting_events[v].status = "pending" =>
             vesting_events'[v].status =
               IF vesting_events[v].vesting_date > today THEN "pending"
               ELSE IF vesting_events[v].plan_type = "ESOP"
                    THEN "pending_exercise"
                    ELSE "due"]_vars

\* One call moved the ESOP event from pending to pending_exercise and the
\* other plan's event from pending to due.
C21_Witness ==
  /\ lastRefresh.advanced = 2
  /\ lastRefresh.vesting_events["v1"].status = "pending_exercise"
  /\ lastRefresh.vesting_events["v2"].status = "due"

\* A step that runs one of the two UPDATE statements of the refresh function.
RefreshStatement(s) ==
  \/ sessions[s].pc \in {"idle", "reload"} /\ sessions'[s].pc = "u_exercise"
  \/ sessions[s].pc = "u_exercise" /\ sessions'[s].pc = "l_events"

\* C22: refresh is safe next to itself and to create, approve, reject and
\* process: a statement of refresh writes only events whose status is
\* pending or due when it runs, so an event that is vested, pending_exercise,
\* exercised, transferred, forfeited or cancelled is left as it is.
C22_RefreshWritesOnlyPendingOrDue ==
  [][\A s \in Sessions :
       RefreshStatement(s) =>
         \A v \in DOMAIN vesting_events :
           vesting_events[v].status \notin {"pending", "due"} =>
             vesting_events'[v] = vesting_events[v]]_vars

\* Both tabs are between the two statements of a refresh while the reviewer's
\* process call is about to write the first event, the second event has
\* been made pending_exercise and the third due.
C22_Witness ==
  /\ sessions[Tab].pc = "u_exercise"
  /\ sessions[OtherTab].pc = "u_exercise"
  /\ pc[Reviewer] = "p_event"
  /\ vesting_events["v2"].status = "pending_exercise"
  /\ vesting_events["v3"].status = "due"

\* The forward steps of a vesting event's status; a refresh call takes
\* pending through due to pending_exercise.
AllowedEventSteps ==
  {<<"pending", "due">>, <<"pending", "pending_exercise">>,
   <<"due", "vested">>, <<"due", "pending_exercise">>,
   <<"vested", "exercised">>, <<"vested", "transferred">>,
   <<"pending_exercise", "exercised">>, <<"pending_exercise", "transferred">>}

\* C23: the status of a vesting event only moves forward, pending -> due ->
\* {vested | pending_exercise} -> {exercised | transferred}; the one step back
\* is reject returning the event of a rejected order to pending_exercise; an
\* event that is exercised never changes its status again.
C23_EventStatusMachine ==
  [][\A v \in DOMAIN vesting_events :
       LET before == vesting_events[v].status
           after == vesting_events'[v].status
       IN \/ after = before
          \/ <<before, after>> \in AllowedEventSteps
          \/ /\ before # "exercised"
             /\ after = "pending_exercise"
             /\ \E o \in Orders :
                  /\ exercise_orders'[o].vesting_event_id = v
                  /\ exercise_orders'[o].status = "rejected"]_vars

\* C24: approve, reject and process take effect only for an actor who holds
\* one of the roles finance_admin, company_admin, hr_admin, operations_admin,
\* super_admin or the approve_cash_transfers permission: a call by an actor
\* with none of them leaves the order as it was, and approve by an actor with
\* any one of them on a pending order makes the order approved.
C24_OnlyPermittedActorsDecide ==
  \A op \in Ops :
    (pc[op] = "done" /\ loc[op].kind \in {"approve", "reject", "process"}) =>
      LET o == loc[op].order
      IN IF HasFinancePermission(op)
         THEN (loc[op].kind = "approve" /\ loc[op].outcome = "ok") =>
                exercise_orders[o].status = "approved"
         ELSE exercise_orders[o] = pre[op].exercise_orders[o]

\* A step of an approve or a reject call of the operator.
DecisionStep(op) ==
  /\ pc'[op] # pc[op]
  /\ \/ loc[op].kind \in {"approve", "reject"}
     \/ loc'[op].kind \in {"approve", "reject"}

\* A step of create in a tab: the click that opens the modal, the confirm
\* and the update of the vesting event.
CreateStep(s) ==
  /\ sessions'[s] # sessions[s]
  /\ \/ sessions'[s].pc = "modal"
     \/ sessions[s].pc \in {"modal", "c_event"}

\* C25: approve, reject and create leave the cash_balance, total_shares and
\* available_shares of every portfolio as they were and create no cash
\* transfer and no share transfer.
C25_DecisionsMoveNothing ==
  [][((\E op \in Ops : DecisionStep(op)) \/ (\E s \in Sessions : CreateStep(s)))
       => UNCHANGED <<portfolios, cash_transfers, share_transfers>>]_vars

\* The order the employee created in the tab has been approved by the
\* reviewer, whose call has just ended.
C25_Witness ==
  /\ sessions[Tab].order = "o2"
  /\ sessions[Tab].outcome = "ok"
  /\ pc[Reviewer] = "done"
  /\ loc[Reviewer].kind = "approve"
  /\ loc[Reviewer].order = "o2"
  /\ loc[Reviewer].outcome = "ok"
  /\ exercise_orders["o2"].status = "approved"
  /\ portfolios = initial

\* C26: a cash transfer is immutable once processed: no approve or reject
\* call, from a stale list or not, changes its status, rejection_reason,
\* approved_by or approved_at; and a rejected transfer is never processed
\* afterwards.
C26_ProcessedTransferImmutable ==
  [][\A t \in DOMAIN cash_transfers :
       /\ cash_transfers[t].status = "processed" =>
            cash_transfers'[t] = cash_transfers[t]
       /\ cash_transfers[t].status = "rejected" =>
            cash_transfers'[t].status # "processed"]_vars

\* The deposits among the transfers.
Deposits ==
  {t \in DOMAIN cash_transfers :
     cash_transfers[t].transfer_type \in {"employee_deposit", "company_deposit"}}

\* C29: over any sequence or interleaving of approve calls, retries after a
\* failed store call included, a deposit credits its destination portfolio
\* at most once; and where no store call failed, the balance of the
\* destination has gone up only if the transfer ends as processed.
C29_DepositCreditedOnce ==
  \A t \in Deposits :
    LET dest == cash_transfers[t].to_portfolio_id
        credited == portfolios[dest].cash_balance - initial[dest].cash_balance
    IN /\ credited \in {0, cash_transfers[t].amount}
       /\ (faults = 0 /\ (\A op \in Ops : Idle(op)) /\ credited > 0) =>
            cash_transfers[t].status = "processed"

\* The available shares of a portfolio in a snapshot, 0 for one not yet there.
AvailableIn(rows, id) ==
  IF id \in DOMAIN rows THEN rows[id].available_shares ELSE 0

\* C27: the steps of process take effect in order, also in what a call that
\* failed part-way leaves behind: the exercise_settlement cash transfer of an
\* order is inserted only after the cost was debited from the employee and
\* credited to the company; the order becomes processed only after the cash
\* transfer and the share transfer exist and both share balances were
\* updated; the vesting event becomes exercised only after the order was set
\* to processed.
C27_StepsTakeEffectInOrder ==
  [][\A op \in Ops :
       LET o == loc[op].order
           before == pre[op]
           emp == loc[op].employeeCashPortfolio.id
           co == loc[op].companyCashPortfolio.id
           from == loc[op].fromPortfolio.id
           to == loc[op].toPortfolio.id
       IN /\ (pc[op] = "p_cash_transfer" /\ pc'[op] = "p_read_shares") =>
               /\ portfolios[emp].cash_balance =
                    before.portfolios[emp].cash_balance - Cost(o)
               /\ portfolios[co].cash_balance =
                    before.portfolios[co].cash_balance + Cost(o)
          /\ (pc[op] = "p_order" /\ pc'[op] = "p_event") =>
               /\ \E t \in SettlementsOf(o) : t > Len(before.cash_transfers)
               /\ \E t \in ShareTransfersOf(o) : t > Len(before.share_transfers)
               /\ portfolios[from].available_shares =
                    AvailableIn(before.portfolios, from) - Shares(o)
               /\ portfolios[to].available_shares =
                    AvailableIn(before.portfolios, to) + Shares(o)
          /\ (pc[op] = "p_event" /\ pc'[op] = "p_reload") =>
               exercise_orders[o].status = "processed"]_vars

\* A process call failed after it had moved the cash and inserted the cash
\* transfer: no share transfer exists, the order is still approved and its
\* vesting event still pending_exercise.
C27_Witness ==
  \E op \in Ops :
    /\ ProcessFailed(op)
    /\ SettlementsOf(loc[op].order) # {}
    /\ ShareTransfersOf(loc[op].order) = {}
    /\ exercise_orders[loc[op].order].status = "approved"
    /\ vesting_events[OrderData[loc[op].order].vesting_event_id].status =
         "pending_exercise"

\* The cost of the orders a process call was started on.
AttemptedCost ==
  (IF nCalls["o1"] > 0 THEN Cost("o1") ELSE 0)
    + (IF nCalls["o2"] > 0 THEN Cost("o2") ELSE 0)

\* C28: retrying process after a call that failed part-way is safe: over all
\* attempts on an order, failed and successful, the employee's cash is
\* debited by its cost at most once, the company's cash is credited by it at
\* most once, and at most one exercise_settlement cash transfer exists for it.
C28_RetryDebitsOnce ==
  /\ RowOf(portfolios, "employee_cash", "e1").cash_balance >=
       RowOf(initial, "employee_cash", "e1").cash_balance - AttemptedCost
  /\ RowOf(portfolios, "company_cash", NULL).cash_balance <=
       RowOf(initial, "company_cash", NULL).cash_balance + AttemptedCost
  /\ \A o \in Orders : Cardinality(SettlementsOf(o)) <= 1

\* C30: creating the employee vested portfolio on first use keeps it unique:
\* after any interleaving of process calls for one employee, two first
\* exercises at the same time included, the employee has at most one
\* employee_vested portfolio in the company.  Stated for the runs in which
\* every order is processed by one call at most.
C30_OneVestedPortfolio ==
  (\A o \in Orders : nCalls[o] <= 1) =>
    \A o \in Orders :
      Cardinality(FindPortfolio("employee_vested", Employee(o))) <= 1

====
